---- MODULE Spec2Model ----
(***************************************************************************)
(* Velora-Trackshift front end: the timer- and event-driven state of the   *)
(* React components App (socket bootstrap), VeloraDashboard (mock race     *)
(* stepping), TelemetryCharts (snapshot polling) and RaceDashboard (status *)
(* polling).  The browser event loop is single threaded: every action is   *)
(* one callback (effect, timer callback, event handler, promise            *)
(* continuation) run to completion together with the render it causes.     *)
(***************************************************************************)
EXTENDS Integers, Sequences, FiniteSets, TLC

NULL == "null"

\* ------------------------------------------------------------------ bounds
\* Seconds of wall clock the App model follows (the timeout is due at 8).
MaxAppClock == 10

\* Cars on the grid: the first NumCars entries of baseDefs (the code has 8).
NumCars == 2
\* Number of points of the loaded track (input from /track1Data.json).
TrackLen == 3
\* Interval callbacks per second of simulation time (the code steps 0.05 s,
\* i.e. 20 per second); simTime is counted in callbacks.
TicksPerSecond == 1
\* Simulation time, in callbacks, after which the stepping interval is cut off.
MaxSimTime == 8
\* Largest displacement, in track points, of one callback (speed is counted
\* in track points per callback; the code caps speed at 700 km/h).
MaxStep == 1
\* Accident-to-DNF timeouts that may be pending for one car at a time.
MaxPendingDnf == 1
\* User commands (start, pause, stop, weather, accident, pitstop) in one run.
MaxCommands == 3
\* RaceDashboard: status polls that may be in flight at a time.
MaxInFlight == 2
\* RaceDashboard: Start / Stop operations that may be in flight at a time.
MaxOps == 1
NumPanels == 3
MaxDrivers == 2
MaxLap == 1

\* ------------------------------------------------------- program constants
\* VeloraDashboard.handlePitstop: duration: 7 (seconds of simulation time).
PitDurationSec == 7
\* VeloraDashboard tick: boostAge < 10.
BoostSec == 10
\* initializeRace / 'stop': (startlineIndex - 200) + ... * carSpacing.
GridOffset == 200
CarSpacing == 20
\* tick: const startlineZone = 100.
StartlineZone == 100
\* sendCommand('accident'): tireHealth - 40.
AccidentTireDamage == 40
FullTire == 100
\* App: setTimeout(..., 8000), in seconds.
ConnectTimeoutSec == 8
\* App: io(backend, { reconnectionAttempts: 5, ... }).
ReconnectionAttempts == 5

LimitedModeMsg == "Backend server not available - running in limited mode"

VARIABLES
    \* ---- App (src/unnamed/part_000)
    appMounted,         \* the component is mounted
    appEffectRan,       \* the mount effect (connectSocket) has run
    connected,          \* useState(false)
    error,              \* useState<string | null>(null)
    showIntro,          \* useState(true)
    sockFlag,           \* the effect's local `isConnected`
    socket,             \* "null" | "connecting" | "connected" | "failed" | "closed"
    sockAttempts,       \* failed connection attempts since the last connect
    connectionTimeout,  \* the effect's local handle: "null" | "handle"
    timeoutPending,     \* the 8 s timer is in the browser's timer table
    appClock            \* seconds since the effect ran

VARIABLES
    \* ---- VeloraDashboard (src/frontend/src/components/Leaderboard.tsx)
    velMounted,         \* the component is mounted
    isRunning,          \* useState(false)
    isConnected,        \* useState(false)
    simTime,            \* useState(0), mirrored by simTimeRef; in callbacks
    weather,            \* useState('sunny')
    cars,               \* useState([]): the car records, in list order
    trackData,          \* useState({points: [], curvatures: [], startlineIndex: 0})
    carPositions,       \* useState(new Map()): car id -> rank (0: no entry)
    pitstopCars,        \* useState(new Map()): car id -> startTime (NotIn: no entry)
    dnfCars,            \* useState(new Set())
    boostingCars,       \* useState(new Map()): car id -> startTime (NotIn: no entry)
    connectTimer,       \* the 500 ms timeout of connectWebSocket is pending
    initFetch,          \* initializeRace: "idle" | "inflight" | its outcome
    dnfTimers,          \* car id -> pending 3000 ms accident timeouts
    lateCallbacks,      \* timer callbacks that have run after the unmount
    commandCount,       \* user commands issued so far
    sinceStop,          \* 'stop' was issued and no start, accident or pitstop since
    wrapped             \* the cars whose position passed the end of the track on the last tick

velVars == <<velMounted, isRunning, isConnected, simTime, weather, cars, trackData,
             carPositions, pitstopCars, dnfCars, boostingCars, connectTimer,
             initFetch, dnfTimers, lateCallbacks, commandCount, sinceStop,
             wrapped>>

VARIABLES
    \* ---- RaceDashboard (src/frontend/src/components/RaceDashboard.tsx)
    rdMounted,          \* the component (and its child) is mounted
    race,               \* useState<Race>({...})
    rdInterval,         \* the 1000 ms interval is active
    pollsInFlight,      \* fetchStatus calls awaiting their response
    opsAtPost,          \* start / stop calls awaiting the POST
    opsAtStatus,        \* start / stop calls awaiting the status fetch
    rdEvent,            \* what the last callback of RaceDashboard did
    \* ---- TelemetryCharts (src/unnamed/part_006)
    telFlag,            \* the effect's local `mounted`
    chartRef,           \* chartRef.current: "null" | "chart" | "destroyed"
    liveCharts,         \* Chart instances created and not destroyed
    telPhase,           \* loop: "fetching" | "waiting" | "stopped"
    telEvent            \* what the last callback of TelemetryCharts did

rdVars == <<rdMounted, race, rdInterval, pollsInFlight, opsAtPost, opsAtStatus, rdEvent>>

telVars == <<telFlag, chartRef, liveCharts, telPhase, telEvent>>

appVars == <<appMounted, appEffectRan, connected, error, showIntro, sockFlag,
             socket, sockAttempts, connectionTimeout, timeoutPending, appClock>>

VARIABLES
    \* ---- PopoutManager (src/frontend/src/components/PopoutManager.tsx)
    pmMounted,          \* the component is mounted
    panels,             \* the panels prop: isPopped of each panel, as last reported
    poppedWindows,      \* useState({}): "none" (no key) | "window" | "null"
    cleanupWindows,     \* the poppedWindows value the cleanup closure captured
    openWindows         \* the panels whose pop-out browser window is open

pmVars == <<pmMounted, panels, poppedWindows, cleanupWindows, openWindows>>

VARIABLES
    \* ---- RaceWizard (src/Light Model Source Code/src/components/RaceWizard.tsx)
    currentStep,        \* useState(0)
    model,              \* useState<ModelType | null>(null)
    drivers,            \* useState<string[]>([])
    parameters,         \* useState<VehicleParameters[]>([]): per car, whose defaults it holds
    pitStops,           \* useState<number[][]>([]): per car, the laps scheduled
    isRacing            \* useState(false)

wizVars == <<currentStep, model, drivers, parameters, pitStops, isRacing>>

vars == <<appVars, velVars, rdVars, telVars, pmVars, wizVars>>

\* The state of the components other than the one an action belongs to.
notApp == <<velVars, rdVars, telVars, pmVars, wizVars>>
notVel == <<appVars, rdVars, telVars, pmVars, wizVars>>
notRace == <<appVars, velVars, pmVars, wizVars>>
notPopout == <<appVars, velVars, rdVars, telVars, wizVars>>
notWizard == <<appVars, velVars, rdVars, telVars, pmVars>>

\* ===================================================================== App

InitApp ==
    /\ appMounted = TRUE
    /\ appEffectRan = FALSE
    /\ connected = FALSE
    /\ error = NULL
    /\ showIntro = TRUE
    /\ sockFlag = FALSE
    /\ socket = NULL
    /\ sockAttempts = 0
    /\ connectionTimeout = NULL
    /\ timeoutPending = FALSE
    /\ appClock = 0

\* What App renders: the three branches of its return.
AppScreen ==
    IF ~connected
    THEN IF error # NULL THEN "error_banner" ELSE "connecting"
    ELSE IF showIntro THEN "intro" ELSE "routes"

\* useEffect(() => { connectSocket(); ... }, []): io() returns a socket and
\* the 8 s timeout is armed, or io() throws and the catch block runs.
AppConnectSocket(throws) ==
    /\ appMounted /\ ~appEffectRan
    /\ appEffectRan' = TRUE
    /\ IF throws
       THEN /\ error' = LimitedModeMsg
            /\ connected' = TRUE
            /\ UNCHANGED <<socket, connectionTimeout, timeoutPending>>
       ELSE /\ socket' = "connecting"
            /\ connectionTimeout' = "handle"
            /\ timeoutPending' = TRUE
            /\ UNCHANGED <<error, connected>>
    /\ UNCHANGED <<appMounted, showIntro, sockFlag, sockAttempts, appClock>>
    /\ UNCHANGED notApp

\* One second of wall clock passes; a due timer fires before time goes on.
AppClockTick ==
    /\ appEffectRan
    /\ appClock < MaxAppClock
    /\ ~(timeoutPending /\ appClock >= ConnectTimeoutSec)
    /\ appClock' = appClock + 1
    /\ UNCHANGED <<appMounted, appEffectRan, connected, error, showIntro, sockFlag,
                   socket, sockAttempts, connectionTimeout, timeoutPending>>
    /\ UNCHANGED notApp

\* Mutant: the timeout callback warns but does not let the app proceed.
AppTimeoutFires_NoProceed ==
    /\ timeoutPending
    /\ appClock >= ConnectTimeoutSec
    /\ timeoutPending' = FALSE
    /\ UNCHANGED <<connected, error>>
    /\ UNCHANGED <<appMounted, appEffectRan, showIntro, sockFlag, socket,
                   sockAttempts, connectionTimeout, appClock>>
    /\ UNCHANGED notApp

\* The setTimeout callback of connectSocket.
AppTimeoutFires ==
    /\ timeoutPending
    /\ appClock >= ConnectTimeoutSec
    /\ timeoutPending' = FALSE
    /\ IF ~sockFlag
       THEN /\ connected' = TRUE
            /\ error' = LimitedModeMsg
       ELSE UNCHANGED <<connected, error>>
    /\ UNCHANGED <<appMounted, appEffectRan, showIntro, sockFlag, socket,
                   sockAttempts, connectionTimeout, appClock>>
    /\ UNCHANGED notApp

\* socket.on('connect', ...)
AppOnConnect ==
    /\ socket = "connecting"
    /\ socket' = "connected"
    /\ sockAttempts' = 0
    /\ sockFlag' = TRUE
    /\ IF connectionTimeout # NULL
       THEN /\ timeoutPending' = FALSE
            /\ connectionTimeout' = NULL
       ELSE UNCHANGED <<timeoutPending, connectionTimeout>>
    /\ connected' = TRUE
    /\ error' = NULL
    /\ UNCHANGED <<appMounted, appEffectRan, showIntro, appClock>>
    /\ UNCHANGED notApp

\* socket.on('connect_error', ...): logged only.  The client retries up to
\* reconnectionAttempts times and then gives up.
AppOnConnectError ==
    /\ socket = "connecting"
    /\ IF sockAttempts < ReconnectionAttempts
       THEN /\ sockAttempts' = sockAttempts + 1
            /\ UNCHANGED socket
       ELSE /\ socket' = "failed"
            /\ UNCHANGED sockAttempts
    /\ UNCHANGED <<appMounted, appEffectRan, connected, error, showIntro, sockFlag,
                   connectionTimeout, timeoutPending, appClock>>
    /\ UNCHANGED notApp

\* socket.on('disconnect', reason => ...): after 'io server disconnect' the
\* handler reconnects by hand, after a transport failure the client does.
AppOnDisconnect(reason) ==
    /\ socket = "connected"
    /\ sockFlag' = FALSE
    /\ socket' = "connecting"
    /\ UNCHANGED <<appMounted, appEffectRan, connected, error, showIntro,
                   sockAttempts, connectionTimeout, timeoutPending, appClock>>
    /\ UNCHANGED notApp

\* handleIntroComplete, called by LoadingIntro, which is rendered only once
\* connected is true.
AppIntroComplete ==
    /\ appMounted /\ connected /\ showIntro
    /\ showIntro' = FALSE
    /\ UNCHANGED <<appMounted, appEffectRan, connected, error, sockFlag, socket,
                   sockAttempts, connectionTimeout, timeoutPending, appClock>>
    /\ UNCHANGED notApp

\* The effect's cleanup: clearTimeout, socket.disconnect() (whose
\* 'disconnect' event clears the local flag).
AppUnmount ==
    /\ appMounted /\ appEffectRan
    /\ appMounted' = FALSE
    /\ timeoutPending' = IF connectionTimeout # NULL THEN FALSE ELSE timeoutPending
    /\ IF socket # NULL
       THEN /\ socket' = "closed"
            /\ sockFlag' = IF socket = "connected" THEN FALSE ELSE sockFlag
       ELSE UNCHANGED <<socket, sockFlag>>
    /\ UNCHANGED <<appEffectRan, connected, error, showIntro, sockAttempts,
                   connectionTimeout, appClock>>
    /\ UNCHANGED notApp

NextApp ==
    \/ \E throws \in BOOLEAN : AppConnectSocket(throws)
    \/ AppClockTick
    \/ AppTimeoutFires
    \/ AppOnConnect
    \/ AppOnConnectError
    \/ \E reason \in {"io server disconnect", "transport close"} : AppOnDisconnect(reason)
    \/ AppIntroComplete
    \/ AppUnmount

\* ========================================================= VeloraDashboard

CarIds == 1..NumCars
NotIn == -1
EmptyMap == [c \in CarIds |-> NotIn]
\* pitData.duration and the boost window, in callbacks.
PitDuration == PitDurationSec * TicksPerSecond
BoostDuration == BoostSec * TicksPerSecond

Max(a, b) == IF a >= b THEN a ELSE b
Min(a, b) == IF a <= b THEN a ELSE b

\* The % of JavaScript: the result has the sign of the dividend.
JSRem(a, n) == IF a >= 0 THEN a % n ELSE -((-a) % n)

EmptyTrack == [points |-> 0, curvatures |-> 0, startlineIndex |-> 0]
NoPositions == [c \in CarIds |-> 0]

InitVelora ==
    /\ velMounted = TRUE
    /\ isRunning = FALSE
    /\ isConnected = FALSE
    /\ simTime = 0
    /\ weather = "sunny"
    /\ cars = <<>>
    /\ trackData = EmptyTrack
    /\ carPositions = NoPositions
    /\ pitstopCars = EmptyMap
    /\ dnfCars = {}
    /\ boostingCars = EmptyMap
    /\ connectTimer = TRUE
    /\ initFetch = "idle"
    /\ dnfTimers = [c \in CarIds |-> 0]
    /\ lateCallbacks = {}
    /\ commandCount = 0
    /\ sinceStop = FALSE
    /\ wrapped = {}

\* The grid slot of the i-th car of the list (i from 0), used by
\* initializeRace and by 'stop'.
GridPosition(startlineIndex, i) ==
    (startlineIndex - GridOffset) + ((NumCars - 1 - i) * CarSpacing)

\* initialCars of initializeRace.
InitialCars(startlineIndex) ==
    [k \in 1..NumCars |->
        [id |-> k,
         position |-> GridPosition(startlineIndex, k - 1),
         lastPosition |-> GridPosition(startlineIndex, k - 1),
         lap |-> 0, speed |-> 0, tireHealth |-> FullTire, status |-> "ok"]]

\* The setTimeout callback of connectWebSocket: setIsConnected(true);
\* initializeRace() (which issues the fetch).  Nothing cancels the timeout;
\* React drops a state update of an unmounted component.
connectWebSocket ==
    /\ connectTimer
    /\ connectTimer' = FALSE
    /\ initFetch' = "inflight"
    /\ isConnected' = IF velMounted THEN TRUE ELSE isConnected
    /\ lateCallbacks' = IF velMounted THEN lateCallbacks ELSE lateCallbacks \cup {"connect"}
    /\ UNCHANGED <<velMounted, isRunning, simTime, weather, cars, trackData,
                   carPositions, pitstopCars, dnfCars, boostingCars, dnfTimers>>
    /\ UNCHANGED <<commandCount, sinceStop, wrapped>>
    /\ UNCHANGED notVel

\* fetch rejects, res.ok is false, res.json() rejects, or the track loads.
FailureOutcomes == {"network_error", "not_ok", "invalid_json"}
FetchOutcomes == FailureOutcomes \cup {"ok"}

\* The state updates of initializeRace after a good load.
InitRaceLoaded(n, startlineIndex) ==
    /\ trackData' = [points |-> n, curvatures |-> n, startlineIndex |-> startlineIndex]
    /\ cars' = InitialCars(startlineIndex)
    /\ carPositions' = [c \in CarIds |-> c]

\* Mutant: a failed load proceeds with a default track.
InitRaceFailed_Default == InitRaceLoaded(TrackLen, 0)

\* The early return after !res.ok and the catch block: a log line only.
InitRaceFailed ==
    UNCHANGED <<trackData, cars, carPositions>>

\* initializeRace, from the fetch on.  React drops the state updates of an
\* unmounted component.
initializeRace(outcome, startlineIndex) ==
    /\ initFetch = "inflight"
    /\ initFetch' = outcome
    /\ IF ~velMounted THEN UNCHANGED <<trackData, cars, carPositions>>
       ELSE IF outcome = "ok" THEN InitRaceLoaded(TrackLen, startlineIndex)
       ELSE InitRaceFailed
    /\ UNCHANGED <<velMounted, isRunning, isConnected, simTime, weather, pitstopCars,
                   dnfCars, boostingCars, connectTimer, dnfTimers, lateCallbacks>>
    /\ UNCHANGED <<commandCount, sinceStop, wrapped>>
    /\ UNCHANGED notVel

CarIdsOf(cs) == {cs[k].id : k \in 1..Len(cs)}

\* handlePitstop(carId), offered for the cars that are neither DNF nor in the pit.
PitCar(car, carId) ==
    IF car.id = carId THEN [car EXCEPT !.speed = 0, !.status = "pit"] ELSE car

handlePitstop(carId) ==
    /\ velMounted
    /\ commandCount < MaxCommands
    /\ commandCount' = commandCount + 1
    /\ sinceStop' = FALSE
    /\ UNCHANGED wrapped
    /\ carId \in CarIdsOf(cars)
    /\ pitstopCars[carId] = NotIn
    /\ carId \notin dnfCars
    /\ pitstopCars' = [pitstopCars EXCEPT ![carId] = simTime]
    /\ cars' = [k \in 1..Len(cars) |-> PitCar(cars[k], carId)]
    /\ UNCHANGED <<velMounted, isRunning, isConnected, simTime, weather, trackData,
                   carPositions, dnfCars, boostingCars, connectTimer, initFetch,
                   dnfTimers, lateCallbacks>>
    /\ UNCHANGED notVel

\* ---- the stepping interval (50 ms)

\* A car that is neither DNF nor, by pitstopCarsRef, in the pit is stepped.
IsStepped(car) == car.id \notin dnfCars /\ pitstopCars[car.id] = NotIn

\* The speeds one callback can give a stepped car: newSpeed moves from
\* car.speed towards targetSpeed, which is 0 for a 'stopped' car and
\* positive (and random) otherwise.
NewSpeeds(car) ==
    IF car.status = "stopped"
    THEN Max(0, car.speed - 1)..car.speed
    ELSE Max(0, car.speed - 1)..Min(MaxStep, car.speed + 1)

\* The body of prevCars.map for a stepped car: position advance, lap
\* detection against lastPosition, wrap, tyre degradation.
StepCar(car, newSpeed, trackLen) ==
    LET prevPosition == car.lastPosition
        moved == car.position + newSpeed
        crossed == /\ moved < prevPosition
                   /\ prevPosition > trackLen - StartlineZone
                   /\ moved < StartlineZone
    IN  [car EXCEPT !.position = JSRem(moved, trackLen),
                    !.lastPosition = car.position,
                    !.speed = newSpeed,
                    !.lap = IF crossed THEN car.lap + 1 ELSE car.lap,
                    !.tireHealth = Max(0, car.tireHealth - newSpeed)]

\* The status the tick gives a car it finds in the pit.
PitStatus == "pit"

\* Mutant: a car in the pit rolls one track point per tick.
TickCar_PitCreeps(car, newSpeed, trackLen) ==
    IF car.id \in dnfCars THEN car
    ELSE IF pitstopCars[car.id] # NotIn
         THEN [car EXCEPT !.speed = 0, !.status = PitStatus,
                          !.position = JSRem(car.position + 1, trackLen),
                          !.lastPosition = car.position]
         ELSE StepCar(car, newSpeed, trackLen)

\* prevCars.map(car => ...) of the tick.
TickCar(car, newSpeed, trackLen) ==
    IF car.id \in dnfCars THEN car
    ELSE IF pitstopCars[car.id] # NotIn
         THEN [car EXCEPT !.speed = 0, !.status = PitStatus, !.lastPosition = car.position]
         ELSE StepCar(car, newSpeed, trackLen)

\* Mutant: the comparator does not look at dnfCars.
CompareCars_NoDnf(a, b) ==
    IF b.lap # a.lap THEN b.lap - a.lap
    ELSE b.position - a.position

\* The comparator of the ranking sort.
CompareCars(a, b) ==
    IF a.id \in dnfCars /\ b.id \notin dnfCars THEN 1
    ELSE IF a.id \notin dnfCars /\ b.id \in dnfCars THEN -1
    ELSE IF b.lap # a.lap THEN b.lap - a.lap
    ELSE b.position - a.position

\* Array.prototype.sort is stable: a car goes behind every car it does not beat.
RECURSIVE InsertCar(_, _)
InsertCar(sorted, car) ==
    IF sorted = <<>> THEN <<car>>
    ELSE IF CompareCars(car, Head(sorted)) < 0
         THEN <<car>> \o sorted
         ELSE <<Head(sorted)>> \o InsertCar(Tail(sorted), car)

RECURSIVE SortCars(_)
SortCars(cs) ==
    IF cs = <<>> THEN <<>>
    ELSE InsertCar(SortCars(SubSeq(cs, 1, Len(cs) - 1)), cs[Len(cs)])

\* Mutant: the completion test is strict, so the car leaves one tick late.
PitCompleted_Late(now) ==
    {c \in CarIds : pitstopCars[c] # NotIn /\ now - pitstopCars[c] > PitDuration}

\* The cars whose pit stop is over at time now ('Handle pitstop completion').
PitCompleted(now) ==
    {c \in CarIds : pitstopCars[c] # NotIn /\ now - pitstopCars[c] >= PitDuration}

\* The update of a car that leaves the pit.
ExitPit(car, leaving) ==
    IF car.id \in leaving
    THEN [car EXCEPT !.status = "ok", !.tireHealth = FullTire]
    ELSE car

RankOf(sorted, c) ==
    IF c \in CarIdsOf(sorted)
    THEN CHOOSE k \in 1..Len(sorted) : sorted[k].id = c
    ELSE 0

\* One run of the setInterval callback.  The updaters run in the next
\* render: the tick's setCars was queued by the callback, the pit-exit
\* setCars is queued while the pitstopCars updater renders, so it runs
\* second; pitstopCarsRef still holds the map of the previous render.
StepInterval(speeds) ==
    /\ velMounted /\ isRunning /\ isConnected
    /\ simTime < MaxSimTime
    /\ \A k \in 1..Len(cars) :
          IF IsStepped(cars[k]) THEN speeds[cars[k].id] \in NewSpeeds(cars[k])
                                ELSE speeds[cars[k].id] = 0
    /\ \A c \in CarIds \ CarIdsOf(cars) : speeds[c] = 0
    /\ LET now == simTime + 1
           leaving == PitCompleted(now)
           stepped == [k \in 1..Len(cars) |->
                          TickCar(cars[k], speeds[cars[k].id], trackData.points)]
           sorted == SortCars(stepped)
       IN  /\ simTime' = now
           /\ pitstopCars' = [c \in CarIds |-> IF c \in leaving THEN NotIn ELSE pitstopCars[c]]
           /\ cars' = [k \in 1..Len(sorted) |-> ExitPit(sorted[k], leaving)]
           /\ carPositions' = [c \in CarIds |-> RankOf(sorted, c)]
           /\ boostingCars' =
                 [c \in CarIds |->
                     IF c \in leaving /\ c \in CarIdsOf(cars) THEN now
                     ELSE IF /\ c \in CarIdsOf(cars) /\ c \notin dnfCars
                             /\ pitstopCars[c] = NotIn
                             /\ boostingCars[c] # NotIn
                             /\ now - boostingCars[c] >= BoostDuration
                          THEN NotIn
                          ELSE boostingCars[c]]
    /\ UNCHANGED <<velMounted, isRunning, isConnected, weather, trackData, dnfCars,
                   connectTimer, initFetch, dnfTimers, lateCallbacks>>
    /\ wrapped' = {cars[k].id : k \in {j \in 1..Len(cars) :
                       /\ IsStepped(cars[j])
                       /\ cars[j].position + speeds[cars[j].id] >= trackData.points}}
    /\ UNCHANGED <<commandCount, sinceStop>>
    /\ UNCHANGED notVel

\* ---- sendCommand

\* case 'start' (the button is disabled while running or not connected).
sendStart ==
    /\ velMounted
    /\ commandCount < MaxCommands
    /\ commandCount' = commandCount + 1
    /\ sinceStop' = FALSE
    /\ UNCHANGED wrapped
    /\ ~isRunning /\ isConnected
    /\ isRunning' = TRUE
    /\ UNCHANGED <<velMounted, isConnected, simTime, weather, cars, trackData,
                   carPositions, pitstopCars, dnfCars, boostingCars, connectTimer,
                   initFetch, dnfTimers, lateCallbacks>>
    /\ UNCHANGED notVel

\* Mutant: 'pause' only clears isRunning and leaves the speeds.
sendPause_KeepsSpeed ==
    /\ velMounted
    /\ commandCount < MaxCommands
    /\ commandCount' = commandCount + 1
    /\ sinceStop' = sinceStop
    /\ UNCHANGED wrapped
    /\ isRunning
    /\ isRunning' = FALSE
    /\ UNCHANGED <<velMounted, isConnected, simTime, weather, cars, trackData,
                   carPositions, pitstopCars, dnfCars, boostingCars, connectTimer,
                   initFetch, dnfTimers, lateCallbacks>>
    /\ UNCHANGED notVel

\* case 'pause' (the button is disabled unless running).
sendPause ==
    /\ velMounted
    /\ commandCount < MaxCommands
    /\ commandCount' = commandCount + 1
    /\ sinceStop' = sinceStop
    /\ UNCHANGED wrapped
    /\ isRunning
    /\ isRunning' = FALSE
    /\ cars' = [k \in 1..Len(cars) |-> [cars[k] EXCEPT !.speed = 0]]
    /\ UNCHANGED <<velMounted, isConnected, simTime, weather, trackData,
                   carPositions, pitstopCars, dnfCars, boostingCars, connectTimer,
                   initFetch, dnfTimers, lateCallbacks>>
    /\ UNCHANGED notVel

\* The car record 'stop' writes for the car at list index k.
ResetCar(car, k) ==
    [car EXCEPT !.position = GridPosition(trackData.startlineIndex, k - 1),
                !.lastPosition = GridPosition(trackData.startlineIndex, k - 1),
                !.lap = 0, !.speed = 0, !.tireHealth = FullTire, !.status = "ok"]

\* Mutant: 'stop' also drops the loaded track.
sendStop_ClearsTrack ==
    /\ velMounted
    /\ commandCount < MaxCommands
    /\ commandCount' = commandCount + 1
    /\ sinceStop' = TRUE
    /\ wrapped' = {}
    /\ isRunning' = FALSE
    /\ simTime' = 0
    /\ pitstopCars' = EmptyMap
    /\ dnfCars' = {}
    /\ boostingCars' = EmptyMap
    /\ cars' = [k \in 1..Len(cars) |-> ResetCar(cars[k], k)]
    /\ trackData' = EmptyTrack
    /\ UNCHANGED <<velMounted, isConnected, weather, carPositions,
                   connectTimer, initFetch, dnfTimers, lateCallbacks>>
    /\ UNCHANGED notVel

\* case 'stop'.  The pending accident timeouts are left running; trackData
\* is read (startlineIndex) and not written.
sendStop ==
    /\ velMounted
    /\ commandCount < MaxCommands
    /\ commandCount' = commandCount + 1
    /\ sinceStop' = TRUE
    /\ wrapped' = {}
    /\ isRunning' = FALSE
    /\ simTime' = 0
    /\ pitstopCars' = EmptyMap
    /\ dnfCars' = {}
    /\ boostingCars' = EmptyMap
    /\ cars' = [k \in 1..Len(cars) |-> ResetCar(cars[k], k)]
    /\ UNCHANGED <<velMounted, isConnected, weather, trackData, carPositions,
                   connectTimer, initFetch, dnfTimers, lateCallbacks>>
    /\ UNCHANGED notVel

\* case 'weather', from the select's onChange.
sendWeather(w) ==
    /\ velMounted
    /\ commandCount < MaxCommands
    /\ commandCount' = commandCount + 1
    /\ sinceStop' = sinceStop
    /\ UNCHANGED wrapped
    /\ w # weather
    /\ weather' = w
    /\ UNCHANGED <<velMounted, isRunning, isConnected, simTime, cars, trackData,
                   carPositions, pitstopCars, dnfCars, boostingCars, connectTimer,
                   initFetch, dnfTimers, lateCallbacks>>
    /\ UNCHANGED notVel

\* Mutant: the accident tags the car with the other penalty status of the tick.
AccidentStatus_Damaged == "damaged"

\* The status 'accident' gives the car until the timeout marks it DNF.
AccidentStatus == "stopped"

AccidentCar(car, carId) ==
    IF car.id = carId
    THEN [car EXCEPT !.tireHealth = Max(0, car.tireHealth - AccidentTireDamage),
                     !.speed = 0, !.status = AccidentStatus]
    ELSE car

\* case 'accident', offered for the cars that are not DNF; it arms the
\* 3000 ms timeout.
sendAccident(carId) ==
    /\ velMounted
    /\ commandCount < MaxCommands
    /\ commandCount' = commandCount + 1
    /\ sinceStop' = FALSE
    /\ UNCHANGED wrapped
    /\ carId \in CarIdsOf(cars)
    /\ carId \notin dnfCars
    /\ dnfTimers[carId] < MaxPendingDnf
    /\ cars' = [k \in 1..Len(cars) |-> AccidentCar(cars[k], carId)]
    /\ dnfTimers' = [dnfTimers EXCEPT ![carId] = @ + 1]
    /\ UNCHANGED <<velMounted, isRunning, isConnected, simTime, weather, trackData,
                   carPositions, pitstopCars, dnfCars, boostingCars, connectTimer,
                   initFetch, lateCallbacks>>
    /\ UNCHANGED notVel

DnfCar(car, carId) ==
    IF car.id = carId THEN [car EXCEPT !.status = "dnf"] ELSE car

\* The setTimeout callback of 'accident'.  Neither 'stop' nor the unmount
\* cancels it.
dnfTimeout(carId) ==
    /\ dnfTimers[carId] > 0
    /\ dnfTimers' = [dnfTimers EXCEPT ![carId] = @ - 1]
    /\ IF velMounted
       THEN /\ dnfCars' = dnfCars \cup {carId}
            /\ cars' = [k \in 1..Len(cars) |-> DnfCar(cars[k], carId)]
            /\ UNCHANGED lateCallbacks
       ELSE /\ lateCallbacks' = lateCallbacks \cup {"dnf"}
            /\ UNCHANGED <<dnfCars, cars>>
    /\ UNCHANGED <<velMounted, isRunning, isConnected, simTime, weather, trackData,
                   carPositions, pitstopCars, boostingCars, connectTimer, initFetch>>
    /\ UNCHANGED <<commandCount, sinceStop, wrapped>>
    /\ UNCHANGED notVel

\* navigate('/'): the effects' cleanups run; only the stepping interval has one.
VeloraUnmount ==
    /\ velMounted
    /\ velMounted' = FALSE
    /\ UNCHANGED <<isRunning, isConnected, simTime, weather, cars, trackData,
                   carPositions, pitstopCars, dnfCars, boostingCars, connectTimer,
                   initFetch, dnfTimers, lateCallbacks>>
    /\ UNCHANGED <<commandCount, sinceStop, wrapped>>
    /\ UNCHANGED notVel

NextVelora ==
    \/ connectWebSocket
    \/ \E outcome \in FetchOutcomes, s \in 0..(TrackLen - 1) :
          /\ (outcome # "ok" => s = 0)
          /\ initializeRace(outcome, s)
    \/ \E speeds \in [CarIds -> 0..MaxStep] : StepInterval(speeds)
    \/ \E c \in CarIds : handlePitstop(c)
    \/ sendStart
    \/ sendPause
    \/ sendStop
    \/ \E w \in {"sunny", "cloudy", "rainy"} : sendWeather(w)
    \/ \E c \in CarIds : sendAccident(c)
    \/ \E c \in CarIds : dnfTimeout(c)
    \/ VeloraUnmount
\* ============================================ RaceDashboard, TelemetryCharts

RaceStatuses == {"ready", "running", "paused", "finished"}

InitRace ==
    /\ rdMounted = TRUE
    /\ race = [id |-> "default", laps |-> 10, status |-> "pending"]
    /\ rdInterval = TRUE
    /\ pollsInFlight = 1
    /\ opsAtPost = 0
    /\ opsAtStatus = 0
    /\ rdEvent = "mount"
    /\ telFlag = TRUE
    /\ chartRef = NULL
    /\ liveCharts = 0
    /\ telPhase = "fetching"
    /\ telEvent = "mount"

\* setRace(prev => ({ ...prev, ...data })); React drops the update of an
\* unmounted component.
MergeRace(data) ==
    IF rdMounted THEN [race EXCEPT !.status = data] ELSE race

\* setInterval(fetchStatus, 1000): one more status fetch is issued.
RdPollTick ==
    /\ rdInterval
    /\ pollsInFlight < MaxInFlight
    /\ pollsInFlight' = pollsInFlight + 1
    /\ rdEvent' = "poll_issued"
    /\ UNCHANGED <<rdMounted, race, rdInterval, opsAtPost, opsAtStatus>>
    /\ UNCHANGED <<telVars, notRace>>

\* fetchStatus, from the response on: the try block ends in setRace.
RdPollOk(data) ==
    /\ pollsInFlight > 0
    /\ pollsInFlight' = pollsInFlight - 1
    /\ race' = MergeRace(data)
    /\ rdEvent' = "poll_ok"
    /\ UNCHANGED <<rdMounted, rdInterval, opsAtPost, opsAtStatus>>
    /\ UNCHANGED <<telVars, notRace>>

\* Mutant: the catch block falls back to the default race.
PollFailedRace_Reset == [race EXCEPT !.status = "pending"]

\* What the catch block of fetchStatus leaves of the race state.
PollFailedRace == race

\* fetchStatus when fetch or response.json() throws: console.error only.
RdPollFailed ==
    /\ pollsInFlight > 0
    /\ pollsInFlight' = pollsInFlight - 1
    /\ race' = PollFailedRace
    /\ rdEvent' = "poll_failed"
    /\ UNCHANGED <<rdMounted, rdInterval, opsAtPost, opsAtStatus>>
    /\ UNCHANGED <<telVars, notRace>>

\* start / stop: the POST is issued (the two differ in the URL only).
RdCommand(op) ==
    /\ rdMounted
    /\ opsAtPost + opsAtStatus < MaxOps
    /\ opsAtPost' = opsAtPost + 1
    /\ rdEvent' = op
    /\ UNCHANGED <<rdMounted, race, rdInterval, pollsInFlight, opsAtStatus>>
    /\ UNCHANGED <<telVars, notRace>>

\* start / stop: the POST resolved, the status fetch is issued.
RdCommandPosted ==
    /\ opsAtPost > 0
    /\ opsAtPost' = opsAtPost - 1
    /\ opsAtStatus' = opsAtStatus + 1
    /\ rdEvent' = "op_posted"
    /\ UNCHANGED <<rdMounted, race, rdInterval, pollsInFlight>>
    /\ UNCHANGED <<telVars, notRace>>

\* start / stop: the status fetch and response.json() resolved, setRace.
RdCommandDone(data) ==
    /\ opsAtStatus > 0
    /\ opsAtStatus' = opsAtStatus - 1
    /\ race' = MergeRace(data)
    /\ rdEvent' = "op_done"
    /\ UNCHANGED <<rdMounted, rdInterval, pollsInFlight, opsAtPost>>
    /\ UNCHANGED <<telVars, notRace>>

\* How a rejected await of start / stop ends: the async function has no
\* try/catch and the onClick caller drops the promise.
OpFailureEvent == "unhandled_rejection"

\* start / stop: the POST (stage "post") or the status fetch or its JSON
\* parsing (stage "status") throws.
RdCommandFailed(stage) ==
    /\ IF stage = "post"
       THEN /\ opsAtPost > 0
            /\ opsAtPost' = opsAtPost - 1
            /\ UNCHANGED opsAtStatus
       ELSE /\ opsAtStatus > 0
            /\ opsAtStatus' = opsAtStatus - 1
            /\ UNCHANGED opsAtPost
    /\ rdEvent' = OpFailureEvent
    /\ UNCHANGED <<rdMounted, race, rdInterval, pollsInFlight>>
    /\ UNCHANGED <<telVars, notRace>>

\* ---- TelemetryCharts, the child of RaceDashboard

\* setTimeout(loop, 1000) fires: loop() issues the snapshot fetch.  The
\* callback does not look at `mounted`.
TelLoop ==
    /\ telPhase = "waiting"
    /\ telPhase' = "fetching"
    /\ telEvent' = "fetch_issued"
    /\ UNCHANGED <<telFlag, chartRef, liveCharts>>
    /\ UNCHANGED <<rdVars, notRace>>

\* Mutant: the handler drops the reference without destroying the chart.
DestroyOld_Skipped(live, ref) == live

\* if (chartRef.current) { chartRef.current.destroy(); chartRef.current = null }:
\* the number of live charts afterwards.
DestroyOld(live, ref) == IF ref = "chart" THEN live - 1 ELSE live

\* loop after a snapshot arrived: return if unmounted, else destroy the old
\* chart, create the new one (which may throw into the empty catch), and in
\* both of the latter cases setTimeout(loop, 1000).
TelSnapshot(chartThrows) ==
    /\ telPhase = "fetching"
    /\ IF ~telFlag
       THEN /\ ~chartThrows
            /\ telPhase' = "stopped"
            /\ telEvent' = "dropped"
            /\ UNCHANGED <<chartRef, liveCharts>>
       ELSE /\ telPhase' = "waiting"
            /\ telEvent' = "scheduled"
            /\ IF chartThrows
               THEN /\ chartRef' = NULL
                    /\ liveCharts' = DestroyOld(liveCharts, chartRef)
               ELSE /\ chartRef' = "chart"
                    /\ liveCharts' = DestroyOld(liveCharts, chartRef) + 1
    /\ UNCHANGED telFlag
    /\ UNCHANGED <<rdVars, notRace>>

\* loop when fetch or r.json() throws: catch {} and setTimeout(loop, 1000),
\* mounted or not.
TelSnapshotFailed ==
    /\ telPhase = "fetching"
    /\ telPhase' = "waiting"
    /\ telEvent' = "scheduled"
    /\ UNCHANGED <<telFlag, chartRef, liveCharts>>
    /\ UNCHANGED <<rdVars, notRace>>

\* RaceDashboard unmounts, and its child with it: clearInterval(interval);
\* mounted = false and chartRef.current.destroy() (the ref is not cleared,
\* the timeout is not cleared).
RdUnmount ==
    /\ rdMounted
    /\ rdMounted' = FALSE
    /\ rdInterval' = FALSE
    /\ rdEvent' = "unmount"
    /\ telFlag' = FALSE
    /\ liveCharts' = IF chartRef = "chart" THEN liveCharts - 1 ELSE liveCharts
    /\ chartRef' = IF chartRef = "chart" THEN "destroyed" ELSE chartRef
    /\ telEvent' = "unmount"
    /\ UNCHANGED <<race, pollsInFlight, opsAtPost, opsAtStatus, telPhase>>
    /\ UNCHANGED notRace

NextRace ==
    \/ RdPollTick
    \/ \E data \in RaceStatuses : RdPollOk(data)
    \/ RdPollFailed
    \/ \E op \in {"start", "stop"} : RdCommand(op)
    \/ RdCommandPosted
    \/ \E data \in RaceStatuses : RdCommandDone(data)
    \/ \E stage \in {"post", "status"} : RdCommandFailed(stage)
    \/ TelLoop
    \/ \E chartThrows \in BOOLEAN : TelSnapshot(chartThrows)
    \/ TelSnapshotFailed
    \/ RdUnmount


\* =========================================================== PopoutManager

PanelIds == 1..NumPanels

\* useState({}): no panel has a key yet.
NoWindows == [p \in PanelIds |-> "none"]

\* The values window.open can return: a window, or null when the browser
\* blocks the pop-up.
WindowOpenOutcomes == {"window", NULL}

\* The effect with the empty dependency list runs once, after the first
\* render: its cleanup closes over the poppedWindows of that render.
InitPopout ==
    /\ pmMounted = TRUE
    /\ panels = [p \in PanelIds |-> FALSE]
    /\ poppedWindows = NoWindows
    /\ cleanupWindows = NoWindows
    /\ openWindows = {}

\* onPanelUpdate({...panel, isPopped}): the owner of the panels stores it.
onPanelUpdate(ps, p, isPopped) == [ps EXCEPT ![p] = isPopped]

\* The window references of a poppedWindows value that close() can act on.
WindowsOf(windows) == {p \in PanelIds : windows[p] = "window"}

\* togglePopout(panel), bound as onPopout to the panels rendered, which are
\* those with !panel.isPopped.  closePanel closes the stored window (its
\* onbeforeunload clears the entry); popoutPanel stores the new window only
\* if window.open returned one; the report follows in both cases.
togglePopout(p, newWindow) ==
    /\ pmMounted
    /\ ~panels[p]
    /\ IF panels[p]
       THEN /\ newWindow = NULL
            /\ openWindows' = openWindows \ (WindowsOf(poppedWindows) \cap {p})
            /\ poppedWindows' = IF p \in openWindows /\ poppedWindows[p] = "window"
                                THEN [poppedWindows EXCEPT ![p] = NULL]
                                ELSE poppedWindows
       ELSE IF newWindow # NULL
            THEN /\ openWindows' = openWindows \cup {p}
                 /\ poppedWindows' = [poppedWindows EXCEPT ![p] = newWindow]
            ELSE UNCHANGED <<openWindows, poppedWindows>>
    /\ panels' = onPanelUpdate(panels, p, ~panels[p])
    /\ UNCHANGED <<pmMounted, cleanupWindows>>
    /\ UNCHANGED notPopout

\* newWindow.onbeforeunload: the user closes the pop-out window.  The
\* report goes to the owner of the panels; the state update is dropped once
\* the component is unmounted.
popoutWindowClosed(p) ==
    /\ p \in openWindows
    /\ openWindows' = openWindows \ {p}
    /\ panels' = onPanelUpdate(panels, p, FALSE)
    /\ poppedWindows' = IF pmMounted THEN [poppedWindows EXCEPT ![p] = NULL]
                                     ELSE poppedWindows
    /\ UNCHANGED <<pmMounted, cleanupWindows>>
    /\ UNCHANGED notPopout

\* The cleanup of the effect: Object.values(poppedWindows).forEach(close),
\* on the value the closure holds; each window closed runs its
\* onbeforeunload.
PopoutUnmount ==
    /\ pmMounted
    /\ pmMounted' = FALSE
    /\ LET closed == WindowsOf(cleanupWindows) \cap openWindows
       IN  /\ openWindows' = openWindows \ closed
           /\ panels' = [p \in PanelIds |-> IF p \in closed THEN FALSE ELSE panels[p]]
    /\ UNCHANGED <<poppedWindows, cleanupWindows>>
    /\ UNCHANGED notPopout

NextPopout ==
    \/ \E p \in PanelIds, newWindow \in WindowOpenOutcomes : togglePopout(p, newWindow)
    \/ \E p \in PanelIds : popoutWindowClosed(p)
    \/ PopoutUnmount

\* ============================================================== RaceWizard

ModelTypes == {"lightweight", "medium", "heavy"}
DriverNames == 1..MaxDrivers
Laps == 1..MaxLap

\* steps.length - 1: the index of the Race step.
LastStep == 4

InitWizard ==
    /\ currentStep = 0
    /\ model = NULL
    /\ drivers = <<>>
    /\ parameters = <<>>
    /\ pitStops = <<>>
    /\ isRacing = FALSE

\* The effect of ParametersConfig, which runs when the step mounts: a list
\* of the wrong length is replaced by one copy of the model's defaults per
\* driver.
InitParameters(params, driverCount, m) ==
    IF Len(params) # driverCount THEN [i \in 1..driverCount |-> m] ELSE params

\* The render of PitStopConfig: a list of the wrong length is replaced by
\* one empty schedule per driver.
InitPitStops(stops, driverCount) ==
    IF Len(stops) # driverCount THEN [i \in 1..driverCount |-> {}] ELSE stops

\* What the step shown after a navigation does to the lists when it mounts.
EnterStep(step) ==
    /\ parameters' = IF step = 2 /\ model # NULL
                     THEN InitParameters(parameters, Len(drivers), model)
                     ELSE parameters
    /\ pitStops' = IF step = 3 THEN InitPitStops(pitStops, Len(drivers)) ELSE pitStops

\* Mutant: the Next button is not disabled on an empty grid.
NextDisabled_NoGridCheck ==
    \/ currentStep = 0 /\ model = NULL
    \/ currentStep = 2 /\ Len(parameters) # Len(drivers)
    \/ currentStep = 3 /\ Len(pitStops) # Len(drivers)

\* The disabled condition of the Next button.
NextDisabled ==
    \/ currentStep = 0 /\ model = NULL
    \/ currentStep = 1 /\ Len(drivers) = 0
    \/ currentStep = 2 /\ Len(parameters) # Len(drivers)
    \/ currentStep = 3 /\ Len(pitStops) # Len(drivers)

\* The Next button (rendered while currentStep < 4) and nextStep.
nextStep ==
    /\ currentStep < 4
    /\ ~NextDisabled
    /\ currentStep' = IF currentStep < LastStep THEN currentStep + 1 ELSE currentStep
    /\ EnterStep(currentStep')
    /\ UNCHANGED <<model, drivers, isRacing>>
    /\ UNCHANGED notWizard

\* The Previous button (rendered while currentStep < 4, disabled at step 0)
\* and prevStep.
prevStep ==
    /\ currentStep < 4
    /\ currentStep # 0
    /\ currentStep' = IF currentStep > 0 /\ ~isRacing THEN currentStep - 1 ELSE currentStep
    /\ EnterStep(currentStep')
    /\ UNCHANGED <<model, drivers, isRacing>>
    /\ UNCHANGED notWizard

\* ModelSelection (step 0): a card is clicked.
setModel(m) ==
    /\ currentStep = 0
    /\ m # model
    /\ model' = m
    /\ UNCHANGED <<currentStep, drivers, parameters, pitStops, isRacing>>
    /\ UNCHANGED notWizard

\* GridSetup (step 1): addDriver with a name that is not on the grid.
addDriver(name) ==
    /\ currentStep = 1
    /\ \A i \in 1..Len(drivers) : drivers[i] # name
    /\ drivers' = Append(drivers, name)
    /\ UNCHANGED <<currentStep, model, parameters, pitStops, isRacing>>
    /\ UNCHANGED notWizard

\* GridSetup (step 1): removeDriver(index).
removeDriver(index) ==
    /\ currentStep = 1
    /\ index \in 1..Len(drivers)
    /\ drivers' = SubSeq(drivers, 1, index - 1) \o SubSeq(drivers, index + 1, Len(drivers))
    /\ UNCHANGED <<currentStep, model, parameters, pitStops, isRacing>>
    /\ UNCHANGED notWizard

\* ParametersConfig (step 2): updateParameter with a value in range; the
\* tabs exist for carIndex < driverCount.
updateParameter(carIndex) ==
    /\ currentStep = 2 /\ model # NULL
    /\ parameters # <<>>
    /\ carIndex \in 1..Len(drivers)
    /\ parameters[carIndex] # "edited"
    /\ parameters' = [parameters EXCEPT ![carIndex] = "edited"]
    /\ UNCHANGED <<currentStep, model, drivers, pitStops, isRacing>>
    /\ UNCHANGED notWizard

\* PitStopConfig (step 3): addPitStop with a lap not yet scheduled.
addPitStop(driverIndex, lap) ==
    /\ currentStep = 3
    /\ driverIndex \in 1..Len(drivers)
    /\ lap \notin pitStops[driverIndex]
    /\ pitStops' = [pitStops EXCEPT ![driverIndex] = @ \cup {lap}]
    /\ UNCHANGED <<currentStep, model, drivers, parameters, isRacing>>
    /\ UNCHANGED notWizard

\* PitStopConfig (step 3): removePitStop of a scheduled lap.
removePitStop(driverIndex, lap) ==
    /\ currentStep = 3
    /\ driverIndex \in 1..Len(drivers)
    /\ lap \in pitStops[driverIndex]
    /\ pitStops' = [pitStops EXCEPT ![driverIndex] = @ \ {lap}]
    /\ UNCHANGED <<currentStep, model, drivers, parameters, isRacing>>
    /\ UNCHANGED notWizard

\* RaceSimulation (step 4): the start button, shown while !isRacing.
startRace ==
    /\ currentStep = 4
    /\ ~isRacing
    /\ isRacing' = TRUE
    /\ UNCHANGED <<currentStep, model, drivers, parameters, pitStops>>
    /\ UNCHANGED notWizard

NextWizard ==
    \/ nextStep
    \/ prevStep
    \/ \E m \in ModelTypes : setModel(m)
    \/ \E name \in DriverNames : addDriver(name)
    \/ \E index \in 1..MaxDrivers : removeDriver(index)
    \/ \E carIndex \in 1..MaxDrivers : updateParameter(carIndex)
    \/ \E driverIndex \in 1..MaxDrivers, lap \in Laps : addPitStop(driverIndex, lap)
    \/ \E driverIndex \in 1..MaxDrivers, lap \in Laps : removePitStop(driverIndex, lap)
    \/ startRace

Init == InitApp /\ InitVelora /\ InitRace /\ InitPopout /\ InitWizard

SpecApp == Init /\ [][NextApp]_vars

SpecVelora == Init /\ [][NextVelora]_vars

SpecRace == Init /\ [][NextRace]_vars

SpecPopout == Init /\ [][NextPopout]_vars

SpecWizard == Init /\ [][NextWizard]_vars

\* The browser runs a due timer and lets time pass; the effect runs after mount.
FairSpecApp ==
    /\ SpecApp
    /\ WF_vars(\E throws \in BOOLEAN : AppConnectSocket(throws))
    /\ WF_vars(AppClockTick)
    /\ WF_vars(AppTimeoutFires)

\* ================================================================== claims

\* C1: in App, while the component stays mounted, connected eventually
\* becomes true whether or not the socket connects, and it is true once
\* more than 8 seconds have passed since the socket was created.
C1_ConnectedEventually ==
    /\ <>(connected \/ ~appMounted)
    /\ [](appMounted /\ appClock > ConnectTimeoutSec => connected)

\* C1 witness: the timeout let the app proceed without a socket connection.
C1_ProceededByTimeout ==
    /\ appMounted /\ connected
    /\ socket \in {"connecting", "failed"}
    /\ ~timeoutPending /\ connectionTimeout # NULL
    /\ appClock >= ConnectTimeoutSec

\* C2: once the 8 s timeout has fired without a socket connection (the
\* limited-mode error is set on a created socket), the banner with the error
\* text is what App renders.
C2_BannerShownAfterTimeout ==
    (appMounted /\ socket # NULL /\ error = LimitedModeMsg) => AppScreen = "error_banner"

\* C3: after VeloraDashboard unmounts none of its timer callbacks (stepping
\* interval, 500 ms connection timeout, 3000 ms accident timeout) runs.
C3_NoCallbackAfterUnmount ==
    lateCallbacks = {}

\* C4: after TelemetryCharts unmounts no snapshot fetch is issued and no
\* loop is scheduled any more.
C4_PollingStopsOnUnmount ==
    ~telFlag => telEvent \notin {"fetch_issued", "scheduled"}

\* C5: in RaceDashboard a failed status poll is caught, leaves the race
\* state and the polling interval as they were, and the interval stays
\* active for as long as the component is mounted.
C5_FailedPollHarmless ==
    /\ [](rdMounted => rdInterval)
    /\ [][rdEvent' = "poll_failed" =>
            (race' = race /\ rdInterval' = rdInterval /\ rdMounted' = rdMounted)]_vars

\* C5 witness: a poll failed after an earlier one had changed the race state.
C5_PollFailedAfterData ==
    rdMounted /\ rdEvent = "poll_failed" /\ race.status # "pending" /\ rdInterval

\* C6: a fetch failure during Start or Stop in RaceDashboard is caught and
\* never escapes as an unhandled rejection.
C6_CommandFailureCaught ==
    rdEvent # "unhandled_rejection"

\* C7: when the load of /track1Data.json fails (network error, non-OK
\* response, invalid JSON), cars and trackData stay empty and carPositions
\* keeps no entry, whatever commands and ticks follow.
C7_FailedLoadLeavesState ==
    initFetch \in FailureOutcomes =>
        (cars = <<>> /\ trackData = EmptyTrack /\ carPositions = NoPositions)

\* C7 witness: the load failed and the race was started and stepped after it.
C7_SteppedAfterFailedLoad ==
    velMounted /\ initFetch \in FailureOutcomes /\ simTime > 0 /\ commandCount > 1

\* C8 as stated: every car's status is one of 'ok', 'pit', 'dnf', 'accident'.
C8_StatusTagsAsStated ==
    \A k \in 1..Len(cars) : cars[k].status \in {"ok", "pit", "dnf", "accident"}

\* C8 amended: every car's status is at all times one of 'ok', 'pit', 'dnf'
\* or 'stopped' (the tag the accident command sets until the car is DNF).
C8_StatusTags ==
    \A k \in 1..Len(cars) : cars[k].status \in {"ok", "pit", "dnf", "stopped"}

\* C8 witness: after an accident, its timeout and a pit stop of the other
\* car, a 'dnf' car and a 'pit' car are on the list once ticks have run.
C8_DnfAndPit ==
    /\ simTime > 0
    /\ \E k \in 1..Len(cars) : cars[k].status = "dnf"
    /\ \E k \in 1..Len(cars) : cars[k].status = "pit"

\* C9: trackData is written by the successful load of initializeRace only,
\* hence once; no tick and no command changes it.
C9_TrackReadOnly ==
    [][trackData' # trackData => (initFetch = "inflight" /\ initFetch' = "ok")]_vars

\* C9 witness: the track is loaded, ticks have run and 'stop' came after them.
C9_LoadedSteppedStopped ==
    trackData # EmptyTrack /\ sinceStop /\ commandCount >= 2 /\ carPositions # NoPositions
    /\ \E c \in CarIds : carPositions[c] # c

\* The race is fully reset: no DNF, pit or boost entry, every car at lap 0,
\* speed 0, tireHealth 100, status 'ok'.
RaceReset ==
    /\ dnfCars = {}
    /\ pitstopCars = EmptyMap
    /\ boostingCars = EmptyMap
    /\ \A k \in 1..Len(cars) :
          /\ cars[k].lap = 0 /\ cars[k].speed = 0
          /\ cars[k].tireHealth = FullTire /\ cars[k].status = "ok"

\* C10: after 'stop' the race is fully reset and stays so until the next
\* start, accident or pitstop command.
C10_StopResetsRace ==
    (velMounted /\ sinceStop) => RaceReset

\* The record of car c in a car list that holds it.
CarOf(cs, c) == cs[CHOOSE k \in 1..Len(cs) : cs[k].id = c]

\* The step is one run of the interval callback / the 'stop' command.
IsTick == simTime' = simTime + 1
IsStop == commandCount' = commandCount + 1 /\ sinceStop' /\ ~isRunning' /\ simTime' = 0
             /\ pitstopCars' = EmptyMap /\ dnfCars' = {} /\ weather' = weather

\* What a step does to a car c that is in the pit since pitstopCars[c]:
\* the first tick at or after startTime + 7 s takes it out, with full tyres
\* and status 'ok'; an earlier tick leaves the entry alone.
PitExitOnTime(c) ==
    /\ (IsTick /\ simTime' - pitstopCars[c] >= PitDuration) =>
          /\ pitstopCars'[c] = NotIn
          /\ CarOf(cars', c).tireHealth = FullTire
          /\ CarOf(cars', c).status = "ok"
    /\ (IsTick /\ simTime' - pitstopCars[c] < PitDuration) =>
          pitstopCars'[c] = pitstopCars[c]

\* A tick keeps the status 'ok' of a car that is out of the pit.
OkStaysOk(c) ==
    (IsTick /\ c \in CarIdsOf(cars) /\ pitstopCars[c] = NotIn /\ CarOf(cars, c).status = "ok")
        => CarOf(cars', c).status = "ok"

\* C11 as stated: a car in the pit since time t leaves pitstopCars on the
\* first tick with simulation time >= t + 7 and in no other step (so never
\* while paused); that tick sets tireHealth 100 and status 'ok', and later
\* ticks keep the status 'ok'.
C11_PitExitAsStated ==
    [][\A c \in CarIds :
          /\ pitstopCars[c] # NotIn =>
                /\ PitExitOnTime(c)
                /\ pitstopCars'[c] = NotIn =>
                      (IsTick /\ isRunning /\ simTime' - pitstopCars[c] >= PitDuration)
          /\ OkStaysOk(c)]_vars

\* C11 amended: the same, except that the 'stop' command also empties
\* pitstopCars, at any time.
C11_PitExit ==
    [][\A c \in CarIds :
          /\ pitstopCars[c] # NotIn =>
                /\ PitExitOnTime(c)
                /\ pitstopCars'[c] = NotIn =>
                      \/ IsTick /\ isRunning /\ simTime' - pitstopCars[c] >= PitDuration
                      \/ IsStop
          /\ OkStaysOk(c)]_vars

\* C11 witness: a car that was in the pit is out of it with full tyres and
\* status 'ok' and has been stepped since (it carries the exit boost and
\* simulation time has passed the exit tick).
C11_LeftPitAndRacing ==
    \E c \in CarIds :
        /\ boostingCars[c] # NotIn /\ simTime > boostingCars[c]
        /\ pitstopCars[c] = NotIn
        /\ CarOf(cars, c).status = "ok"

\* C12: a tick that finds car c in pitstopCars leaves its position and lap
\* unchanged and its speed 0, from the tick after the pit entry up to and
\* including the tick that completes the pit stop.
C12_PitCarStatic ==
    [][\A c \in CarIds :
          (IsTick /\ pitstopCars[c] # NotIn) =>
              /\ CarOf(cars', c).position = CarOf(cars, c).position
              /\ CarOf(cars', c).lap = CarOf(cars, c).lap
              /\ CarOf(cars', c).speed = 0]_vars

\* C12 witness: a car that entered the pit during the race has been in it
\* for at least one tick, while another car has moved off the grid.
C12_TickedInPit ==
    \E c \in CarIds :
        /\ pitstopCars[c] >= 1 /\ simTime > pitstopCars[c]
        /\ \E k \in 1..Len(cars) : cars[k].id # c /\ cars[k].speed > 0

\* C13: a car in dnfCars stays there until the next 'stop' and is frozen:
\* its status stays 'dnf', and no tick changes its position, lap, speed or
\* tireHealth, whatever commands and pit completions are interleaved.
C13_DnfFrozen ==
    [][\A c \in dnfCars :
          /\ IsStop \/ c \in dnfCars'
          /\ c \in dnfCars' => CarOf(cars', c).status = "dnf"
          /\ IsTick =>
                /\ CarOf(cars', c).position = CarOf(cars, c).position
                /\ CarOf(cars', c).lap = CarOf(cars, c).lap
                /\ CarOf(cars', c).speed = CarOf(cars, c).speed
                /\ CarOf(cars', c).tireHealth = CarOf(cars, c).tireHealth]_vars

\* C14: between two 'stop' commands a car's lap never decreases and rises by
\* at most 1 per tick, and a tick adds a lap to a car exactly when the car's
\* position passed the end of the track on the tick before, under any
\* interleaving with pitstop, pause / start and weather commands.
C14_LapPerWrap ==
    [][\A c \in CarIdsOf(cars) \ dnfCars :
          /\ ~IsStop => /\ CarOf(cars', c).lap >= CarOf(cars, c).lap
                        /\ CarOf(cars', c).lap <= CarOf(cars, c).lap + 1
          /\ IsTick => (CarOf(cars', c).lap = CarOf(cars, c).lap + 1 <=> c \in wrapped)
          /\ (~IsTick /\ ~IsStop) => CarOf(cars', c).lap = CarOf(cars, c).lap]_vars

\* The cars list is in ranking order and carPositions numbers it 1..N:
\* no DNF car before a non-DNF car, and inside each group lap descending,
\* then position descending.
Ranked ==
    /\ \A k \in 1..Len(cars) : carPositions[cars[k].id] = k
    /\ \A i, j \in 1..Len(cars) :
          i < j =>
            /\ ~(cars[i].id \in dnfCars /\ cars[j].id \notin dnfCars)
            /\ (cars[i].id \in dnfCars <=> cars[j].id \in dnfCars) =>
                  \/ cars[i].lap > cars[j].lap
                  \/ cars[i].lap = cars[j].lap /\ cars[i].position >= cars[j].position

\* C15: after every tick the cars list and the ranks of carPositions
\* (1..N, each once) put every non-DNF car ahead of every DNF car and order
\* each group by lap descending, then position descending.
C15_RankedAfterTick == [][IsTick => Ranked']_vars

\* C15 witness: a tick has ranked a DNF car behind a car that is behind it
\* on the track, while the race runs.
C15_DnfRankedLast ==
    /\ Ranked /\ isRunning /\ simTime > 0
    /\ \E i, j \in 1..Len(cars) :
          /\ i < j /\ cars[i].id \notin dnfCars /\ cars[j].id \in dnfCars
          /\ cars[j].lap = cars[i].lap /\ cars[j].position > cars[i].position
          /\ cars[j].id < cars[i].id

\* The step is the 'pause' / the 'start' command.
IsPause == commandCount' = commandCount + 1 /\ isRunning /\ ~isRunning' /\ ~IsStop
IsStart == ~isRunning /\ isRunning'

\* No car of the list changes its position or lap in the step.
CarsStay ==
    \A c \in CarIdsOf(cars) :
        /\ CarOf(cars', c).position = CarOf(cars, c).position
        /\ CarOf(cars', c).lap = CarOf(cars, c).lap

\* C16 as stated: a tick happens only while isRunning and isConnected; while
\* either is false simTime and every car's position and lap stay unchanged;
\* 'pause' sets every speed to 0 and 'start' resumes from the same simTime.
C16_FrozenWhileNotRunningAsStated ==
    [][/\ IsTick => (isRunning /\ isConnected)
       /\ ~(isRunning /\ isConnected) => (simTime' = simTime /\ CarsStay)
       /\ IsPause => \A k \in 1..Len(cars') : cars'[k].speed = 0
       /\ IsStart => simTime' = simTime]_vars

\* C16 amended: the same, except that 'stop' resets simTime and the cars
\* also while the simulation is not running.
C16_FrozenWhileNotRunning ==
    [][/\ IsTick => (isRunning /\ isConnected)
       /\ (~(isRunning /\ isConnected) /\ ~IsStop) => (simTime' = simTime /\ CarsStay)
       /\ IsPause => (simTime' = simTime /\ CarsStay /\ \A k \in 1..Len(cars') : cars'[k].speed = 0)
       /\ IsStart => (simTime' = simTime /\ CarsStay)]_vars

\* C16 witness: the race is paused after ticks have moved a car: simTime
\* is past 0, a car is off its grid position and every speed is 0.
C16_PausedMidRace ==
    /\ velMounted /\ isConnected /\ ~isRunning /\ simTime > 0
    /\ cars # <<>>
    /\ \A k \in 1..Len(cars) : cars[k].speed = 0
    /\ \E k \in 1..Len(cars) : cars[k].position >= 0 /\ cars[k].lastPosition # cars[k].position

\* C17: TelemetryCharts holds at most one live Chart, which is the one
\* chartRef points to (the previous one is destroyed before the next is
\* created); after the unmount no chart is live: the last one was
\* destroyed by the cleanup and none is created later.
C17_OneLiveChart ==
    /\ liveCharts \in {0, 1}
    /\ liveCharts = 1 <=> chartRef = "chart"
    /\ ~telFlag => liveCharts = 0

\* C17 witness: a chart was created, the unmount destroyed it, and a
\* snapshot that arrived afterwards was dropped.
C17_DestroyedThenDropped ==
    ~telFlag /\ chartRef = "destroyed" /\ telEvent = "dropped" /\ liveCharts = 0

\* C18: when PopoutManager unmounts, every pop-out window open at that
\* moment is closed, whatever pop-outs and window closes came before.
C18_UnmountClosesWindows ==
    [][(pmMounted /\ ~pmMounted') => openWindows' = {}]_vars

\* C19: a panel is reported popped (isPopped, hence hidden from the
\* dashboard) exactly when an open pop-out window of it exists, for every
\* outcome of window.open.
C19_PoppedIffWindow ==
    \A p \in PanelIds : panels[p] <=> p \in openWindows

\* The Race step is shown with a model, a non-empty grid and one parameter
\* set and one pit-stop schedule per driver.
RaceReady ==
    /\ model # NULL
    /\ Len(drivers) >= 1
    /\ Len(parameters) = Len(drivers)
    /\ Len(pitStops) = Len(drivers)

\* C20: currentStep stays within 0..4; the Race step (4) is only shown in a
\* state with a model, at least one driver and parameters.length =
\* pitStops.length = drivers.length; once at step 4, currentStep never
\* changes again.
C20_WizardSteps ==
    /\ [](currentStep \in 0..4 /\ (currentStep = 4 => RaceReady))
    /\ [][currentStep = 4 => currentStep' = 4]_vars

\* C20 witness: the race was started at step 4 with two drivers whose
\* parameter sets still hold the defaults of a model other than the one now
\* selected: the user went back and edited earlier steps on the way.
C20_RacingAfterEdits ==
    /\ currentStep = 4 /\ isRacing /\ Len(drivers) = 2 /\ RaceReady
    /\ \E i \in 1..Len(parameters) : parameters[i] \in ModelTypes \ {model}

\* C21: every car's position is a valid track index, 0 <= position <
\* trackLen, at initialisation, after every tick and after a 'stop' reset,
\* for every startlineIndex in 0..trackLen-1.
C21_PositionInTrack ==
    \A k \in 1..Len(cars) :
        0 <= cars[k].position /\ cars[k].position < trackData.points

====
